---------------------------- MODULE Spec2Model ----------------------------
(***************************************************************************)
(* Cache-key generation of easy_cache (services/key_generator.py).        *)
(*                                                                         *)
(* A Python value is a record: k is its type name ("object" for an        *)
(* instance of a user class, whose class name is the str c), i, s, t, items *)
(* hold an int, a str, the fields of a datetime, and the entries of a      *)
(* container or the attributes of an object.  A dict is the sequence of    *)
(* its entries in insertion order, a set the sequence of its elements in   *)
(* iteration order.  A Python str is a sequence of symbols: a symbol is a  *)
(* character, or a run of n hex digits of the SHA-256 of a string.  The    *)
(* digest is kept symbolic: two runs are equal exactly when they digest    *)
(* the same string to the same number of digits (no collisions).           *)
(***************************************************************************)
EXTENDS Integers, Sequences, FiniteSets, TLC

---------------------------------------------------------------------------
(* Strings                                                                 *)

Ch(c) == [ch |-> c, of |-> <<>>, n |-> 1]

\* the str whose characters are the one-character strings of cs
S(cs) == [i \in 1..Len(cs) |-> Ch(cs[i])]

LF == Ch("\n")
CR == Ch("\r")
NUL == Ch("NUL")
SPACE == Ch(" ")
QUOTE == Ch("\"")
BACKSLASH == Ch("\\")

RECURSIVE StrLen(_)
\* len(s): a character counts 1, a run of hex digits its number of digits
StrLen(s) ==
    IF s = <<>> THEN 0
    ELSE IF Len(s) = 1 THEN s[1].n
    ELSE LET m == Len(s) \div 2
         IN StrLen(SubSeq(s, 1, m)) + StrLen(SubSeq(s, m + 1, Len(s)))

\* c * n
Repeat(c, n) == [i \in 1..n |-> c]

RECURSIVE Join(_, _)
\* sep.join(parts)
Join(sep, parts) ==
    IF parts = <<>> THEN <<>>
    ELSE IF Len(parts) = 1 THEN parts[1]
    ELSE parts[1] \o sep \o Join(sep, Tail(parts))

\* s.replace(old, new) for a single character old
Replace(s, old, new) == [i \in 1..Len(s) |-> IF s[i] = old THEN new ELSE s[i]]

\* c in s
Contains(s, c) == \E i \in 1..Len(s) : s[i] = c

Lower == <<"a","b","c","d","e","f","g","h","i","j","k","l","m",
           "n","o","p","q","r","s","t","u","v","w","x","y","z">>
Upper == <<"A","B","C","D","E","F","G","H","I","J","K","L","M",
           "N","O","P","Q","R","S","T","U","V","W","X","Y","Z">>
Digit == <<"0","1","2","3","4","5","6","7","8","9">>

IndexIn(seq, c) == CHOOSE i \in 1..Len(seq) : seq[i] = c

\* ord(c) of the characters the model uses (str comparison is by code point)
CodePoint(sym) ==
    LET c == sym.ch IN
    IF \E i \in 1..26 : Lower[i] = c THEN 96 + IndexIn(Lower, c)
    ELSE IF \E i \in 1..26 : Upper[i] = c THEN 64 + IndexIn(Upper, c)
    ELSE IF \E i \in 1..10 : Digit[i] = c THEN 47 + IndexIn(Digit, c)
    ELSE CASE c = "NUL" -> 0
           [] c = "\n" -> 10
           [] c = "\r" -> 13
           [] c = " " -> 32
           [] c = "\"" -> 34
           [] c = "&" -> 38
           [] c = "'" -> 39
           [] c = "(" -> 40
           [] c = ")" -> 41
           [] c = "," -> 44
           [] c = "-" -> 45
           [] c = "." -> 46
           [] c = ":" -> 58
           [] c = "=" -> 61
           [] c = "[" -> 91
           [] c = "\\" -> 92
           [] c = "]" -> 93
           [] c = "_" -> 95
           [] c = "{" -> 123
           [] c = "}" -> 125
           [] OTHER -> 127

RECURSIVE StrLess(_, _)
\* a < b for two str
StrLess(a, b) ==
    IF b = <<>> THEN FALSE
    ELSE IF a = <<>> THEN TRUE
    ELSE IF Head(a) = Head(b) THEN StrLess(Tail(a), Tail(b))
    ELSE CodePoint(Head(a)) < CodePoint(Head(b))

RECURSIVE IntDigits(_)
IntDigits(n) ==
    IF n < 10 THEN <<Ch(Digit[n + 1])>>
    ELSE IntDigits(n \div 10) \o <<Ch(Digit[(n % 10) + 1])>>

\* str(n) of an int
IntStr(n) == IF n < 0 THEN S(<<"-">>) \o IntDigits(0 - n) ELSE IntDigits(n)

\* '%0<w>d' % n
ZeroPad(n, w) == Repeat(Ch("0"), w - Len(IntDigits(n))) \o IntDigits(n)

\* hashlib.sha256(s.encode()).hexdigest()[:n]
Sha256Hex(s, n) == <<[ch |-> "#", of |-> s, n |-> n]>>


---------------------------------------------------------------------------
(* Python values                                                           *)

Val(k, c, i, s, t, items) == [k |-> k, c |-> c, i |-> i, s |-> s, t |-> t, items |-> items]

\* a dict entry key: val, an attribute name = val, or (key <<>>) a list element
Entry(key, val) == [key |-> key, val |-> val]
Elems(vals) == [j \in 1..Len(vals) |-> Entry(<<>>, vals[j])]
Values(items) == [j \in 1..Len(items) |-> items[j].val]

PyNone == Val("NoneType", <<>>, 0, <<>>, <<>>, <<>>)
PyBool(b) == Val("bool", <<>>, IF b THEN 1 ELSE 0, <<>>, <<>>, <<>>)
PyInt(n) == Val("int", <<>>, n, <<>>, <<>>, <<>>)
PyStr(s) == Val("str", <<>>, 0, s, <<>>, <<>>)
PyList(vals) == Val("list", <<>>, 0, <<>>, <<>>, Elems(vals))
PyTuple(vals) == Val("tuple", <<>>, 0, <<>>, <<>>, Elems(vals))
PySet(vals) == Val("set", <<>>, 0, <<>>, <<>>, Elems(vals))
PyDict(entries) == Val("dict", <<>>, 0, <<>>, <<>>, entries)
\* datetime(year, month, day, hour, minute, second, microsecond), naive
PyDatetime(y, mo, d, h, mi, sec, us) == Val("datetime", <<>>, 0, <<>>, <<y, mo, d, h, mi, sec, us>>, <<>>)
\* uuid.UUID, s its canonical text
PyUUID(s) == Val("UUID", <<>>, 0, s, <<>>, <<>>)
\* an instance of class cls whose __dict__ is attrs
PyObject(cls, attrs) == Val("object", cls, 0, <<>>, <<>>, attrs)
\* a dataclass field holding value, declared with field(hash=False) or not
Field(value, hashing) ==
    Val("field", <<>>, IF hashing THEN 1 ELSE 0, <<>>, <<>>, <<Entry(<<>>, value)>>)
\* an instance of the dataclass cls, fields its dataclasses.fields in order
PyDataclass(cls, fields) == Val("dataclass", cls, 0, <<>>, <<>>, fields)
\* a reference to the dict argument that (transitively) holds it
SelfRef == Val("selfref", <<>>, 0, <<>>, <<>>, <<>>)

\* type(x).__name__
TypeName(x) ==
    CASE x.k \in {"object", "dataclass"} -> x.c
      [] x.k = "NoneType" -> S(<<"N","o","n","e","T","y","p","e">>)
      [] x.k = "bool" -> S(<<"b","o","o","l">>)
      [] x.k = "int" -> S(<<"i","n","t">>)
      [] x.k = "str" -> S(<<"s","t","r">>)
      [] x.k = "list" -> S(<<"l","i","s","t">>)
      [] x.k = "tuple" -> S(<<"t","u","p","l","e">>)
      [] x.k = "set" -> S(<<"s","e","t">>)
      [] x.k = "datetime" -> S(<<"d","a","t","e","t","i","m","e">>)
      [] x.k = "UUID" -> S(<<"U","U","I","D">>)
      [] x.k \in {"dict", "selfref"} -> S(<<"d","i","c","t">>)

\* isinstance(x, dict) and friends; a selfref is the enclosing dict
IsDict(x) == x.k \in {"dict", "selfref"}
IsList(x) == x.k = "list"

HasAttr(x, name) ==
    x.k \in {"object", "dataclass"} /\ \E j \in 1..Len(x.items) : x.items[j].key = name
FieldValue(val) == IF val.k = "field" THEN val.items[1].val ELSE val
GetAttr(x, name) ==
    FieldValue(x.items[CHOOSE j \in 1..Len(x.items) : x.items[j].key = name].val)

\* datetime.isoformat(timespec="microseconds")
IsoFormat(t) ==
    ZeroPad(t[1], 4) \o S(<<"-">>) \o ZeroPad(t[2], 2) \o S(<<"-">>) \o ZeroPad(t[3], 2)
    \o S(<<"T">>) \o ZeroPad(t[4], 2) \o S(<<":">>) \o ZeroPad(t[5], 2) \o S(<<":">>)
    \o ZeroPad(t[6], 2) \o S(<<".">>) \o ZeroPad(t[7], 6)

\* datetime.strftime('%Y%m%d_%H%M%S')
StrfTime(t) ==
    ZeroPad(t[1], 4) \o ZeroPad(t[2], 2) \o ZeroPad(t[3], 2) \o S(<<"_">>)
    \o ZeroPad(t[4], 2) \o ZeroPad(t[5], 2) \o ZeroPad(t[6], 2)

\* str(x) of a datetime
DatetimeStr(t) ==
    ZeroPad(t[1], 4) \o S(<<"-">>) \o ZeroPad(t[2], 2) \o S(<<"-">>)
    \o ZeroPad(t[3], 2) \o S(<<" ">>) \o ZeroPad(t[4], 2) \o S(<<":">>)
    \o ZeroPad(t[5], 2) \o S(<<":">>) \o ZeroPad(t[6], 2)
    \o (IF t[7] = 0 THEN <<>> ELSE S(<<".">>) \o ZeroPad(t[7], 6))

RECURSIVE Repr(_)
RECURSIVE ReprElems(_)

\* the repr of each element of a tuple or a set, in iteration order
ReprElems(items) ==
    IF items = <<>> THEN <<>>
    ELSE <<Repr(Head(items).val)>> \o ReprElems(Tail(items))

\* repr(x) of an int, a bool, None, a str without quotes or escapes, and of
\* a tuple or a set of these (a set is written in its iteration order)
Repr(x) ==
    CASE x.k = "str" -> <<Ch("'")>> \o x.s \o <<Ch("'")>>
      [] x.k = "int" -> IntStr(x.i)
      [] x.k = "bool" -> IF x.i = 1 THEN S(<<"T","r","u","e">>) ELSE S(<<"F","a","l","s","e">>)
      [] x.k = "NoneType" -> S(<<"N","o","n","e">>)
      [] x.k = "tuple" ->
            S(<<"(">>) \o Join(S(<<",", " ">>), ReprElems(x.items))
            \o (IF Len(x.items) = 1 THEN S(<<",">>) ELSE <<>>) \o S(<<")">>)
      [] x.k = "set" ->
            IF x.items = <<>> THEN S(<<"s","e","t","(",")">>)
            ELSE S(<<"{">>) \o Join(S(<<",", " ">>), ReprElems(x.items)) \o S(<<"}">>)

\* str(x)
Str(x) ==
    CASE x.k = "str" -> x.s
      [] x.k = "UUID" -> x.s
      [] x.k = "datetime" -> DatetimeStr(x.t)
      [] OTHER -> Repr(x)

\* what a call returns (v) or the exception it raises (e)
Ok(v) == [ok |-> TRUE, e |-> "", v |-> v]
Raise(e) == [ok |-> FALSE, e |-> e, v |-> <<>>]

\* the sequence a gave followed by the one b gave; b is not run when a raised
Concat(a, b) == IF ~a.ok THEN a ELSE IF ~b.ok THEN b ELSE Ok(a.v \o b.v)

\* [r], r prefixed by pre, and the entry key: r, of what a call returned
One(r) == IF r.ok THEN Ok(<<r.v>>) ELSE r
Prefixed(pre, r) == IF r.ok THEN Ok(pre \o r.v) ELSE r
Keyed(key, r) == IF r.ok THEN Ok([key |-> key, val |-> r.v]) ELSE r

---------------------------------------------------------------------------
(* Configuration and limits                                                *)

\* KeyGenerator.MAX_VALUE_LENGTH
MAX_VALUE_LENGTH == 100

\* get_config()["MAX_VALUE_LENGTH"]
ConfigMaxValueLength == 100

\* get_config()["DEFAULT_EXCLUDE_TYPES"]
DEFAULT_EXCLUDE_TYPES == {"datetime", "date", "time", "UUID"}

\* self.exclude_types
exclude_types == DEFAULT_EXCLUDE_TYPES

\* the interpreter's recursion limit, in frames of _filter_dict_for_cache
RecursionLimit == 6

\* isinstance(x, T) for a type name T (datetime is a subclass of date)
IsInstance(x, T) == x.k = T \/ (T = "date" /\ x.k = "datetime")

---------------------------------------------------------------------------
(* KeyGenerator helpers                                                    *)

\* exclusion sets that also hold NoneType, and int
ExcludesNone(value) == \E T \in exclude_types \cup {"NoneType"} : IsInstance(value, T)
ExcludesInt(value) == \E T \in exclude_types \cup {"int"} : IsInstance(value, T)

\* isinstance(value, self.exclude_types)
_should_exclude_value(value) == \E T \in exclude_types : IsInstance(value, T)

\* the items of a dict value; a selfref is the dict argument root itself
DictItems(value, root) == IF value.k = "selfref" THEN root.items ELSE value.items

RECURSIVE _filter_dict_for_cache(_, _, _)
RECURSIVE FilterEntries(_, _, _)
RECURSIVE FilterListItems(_, _, _)

\* the dict and the list built from the filtered entries and elements
AsDict(filtered) == IF filtered.ok THEN Ok(PyDict(filtered.v)) ELSE filtered
AsList(filtered) ==
    IF filtered.ok THEN Ok(Val("list", <<>>, 0, <<>>, <<>>, filtered.v)) ELSE filtered

\* lines 192-194 for one element of a list: the elements it contributes
FilterListItem(item, root, depth) ==
    IF _should_exclude_value(item) THEN Ok(<<>>)
    ELSE IF IsDict(item)
    THEN One(Keyed(<<>>, AsDict(_filter_dict_for_cache(DictItems(item, root), root, depth + 1))))
    ELSE Ok(<<Entry(<<>>, item)>>)

\* a filter that leaves list-valued entries as they are
UnfilteredListItems(items, root, depth) == Ok(items)

\* the list comprehension of lines 191-195 over the elements items of a list
FilterListItems(items, root, depth) ==
    IF items = <<>> THEN Ok(<<>>)
    ELSE Concat(FilterListItem(Head(items).val, root, depth),
                FilterListItems(Tail(items), root, depth))

\* lines 183-197 for one entry of a dict: the entries it contributes
FilterEntry(key, value, root, depth) ==
    IF _should_exclude_value(value) THEN Ok(<<>>)
    ELSE IF IsDict(value)
    THEN One(Keyed(key, AsDict(_filter_dict_for_cache(DictItems(value, root), root, depth + 1))))
    ELSE IF IsList(value)
    THEN One(Keyed(key, AsList(FilterListItems(value.items, root, depth))))
    ELSE Ok(<<Entry(key, value)>>)

\* the loop of lines 181-197 over the entries items of a dict
FilterEntries(items, root, depth) ==
    IF items = <<>> THEN Ok(<<>>)
    ELSE Concat(FilterEntry(Head(items).key, Head(items).val, root, depth),
                FilterEntries(Tail(items), root, depth))

\* data: the entries of the dict; depth: the nesting of the call on the stack.
\* Returns the entries of the filtered dict, or raises RecursionError.
_filter_dict_for_cache(data, root, depth) ==
    IF depth > RecursionLimit THEN Raise("RecursionError")
    ELSE FilterEntries(data, root, depth)

\* a dict left in insertion order
UnsortedItems(items) == items

RECURSIVE InsertByKey(_, _)
InsertByKey(sorted, x) ==
    IF sorted = <<>> THEN <<x>>
    ELSE IF StrLess(x.key, Head(sorted).key) THEN <<x>> \o sorted
    ELSE <<Head(sorted)>> \o InsertByKey(Tail(sorted), x)

RECURSIVE SortedItems(_)
\* sorted(d.items()) for a dict with str keys (the sort is stable)
SortedItems(items) ==
    IF items = <<>> THEN <<>>
    ELSE InsertByKey(SortedItems(SubSeq(items, 1, Len(items) - 1)), items[Len(items)])

\* (type(x).__name__, str(x)) < (type(y).__name__, str(y))
SetKeyLess(x, y) ==
    \/ StrLess(TypeName(x), TypeName(y))
    \/ TypeName(x) = TypeName(y) /\ StrLess(Str(x), Str(y))

RECURSIVE InsertBySetKey(_, _)
InsertBySetKey(sorted, x) ==
    IF sorted = <<>> THEN <<x>>
    ELSE IF SetKeyLess(x.val, Head(sorted).val) THEN <<x>> \o sorted
    ELSE <<Head(sorted)>> \o InsertBySetKey(Tail(sorted), x)

\* a set left in its iteration order
IterationOrder(items) == items

RECURSIVE SortedBySetKey(_)
\* sorted(list(obj), key=lambda x: (type(x).__name__, str(x)))
SortedBySetKey(items) ==
    IF items = <<>> THEN <<>>
    ELSE InsertBySetKey(SortedBySetKey(SubSeq(items, 1, Len(items) - 1)), items[Len(items)])

\* json's escape of one character of a str (ensure_ascii)
JsonEscapeChar(sym) ==
    CASE sym = QUOTE -> <<BACKSLASH, QUOTE>>
      [] sym = BACKSLASH -> <<BACKSLASH, BACKSLASH>>
      [] sym = LF -> <<BACKSLASH, Ch("n")>>
      [] sym = CR -> <<BACKSLASH, Ch("r")>>
      [] sym = NUL -> <<BACKSLASH, Ch("u"), Ch("0"), Ch("0"), Ch("0"), Ch("0")>>
      [] OTHER -> <<sym>>

RECURSIVE JsonEscape(_)
JsonEscape(s) ==
    IF s = <<>> THEN <<>>
    ELSE IF Len(s) = 1 THEN JsonEscapeChar(s[1])
    ELSE JsonEscape(SubSeq(s, 1, Len(s) \div 2))
         \o JsonEscape(SubSeq(s, Len(s) \div 2 + 1, Len(s)))

\* json.dumps of a str
JsonString(s) == <<QUOTE>> \o JsonEscape(s) \o <<QUOTE>>

\* key.startswith("_")
StartsWithUnderscore(key) == key # <<>> /\ key[1] = Ch("_")

\* {key: value for key, value in obj.__dict__.items() if not key.startswith("_")}
PublicAttrs(items) == SelectSeq(items, LAMBDA en : ~StartsWithUnderscore(en.key))

RECURSIVE HashingFields(_)
\* lines 239-243: fields_dict, the fields whose hash is not False
HashingFields(fields) ==
    IF fields = <<>> THEN <<>>
    ELSE (IF Head(fields).val.i # 0
          THEN <<Entry(Head(fields).key, FieldValue(Head(fields).val))>> ELSE <<>>)
         \o HashingFields(Tail(fields))

\* the default= hook of json.dumps: the value encoded in place of obj
_json_default(obj, root) ==
    IF HasAttr(obj, S(<<"p","k">>))
    THEN Ok(PyStr(obj.c \o S(<<":">>) \o Str(GetAttr(obj, S(<<"p","k">>)))))
    ELSE IF obj.k = "datetime" THEN Ok(PyStr(IsoFormat(obj.t)))
    ELSE IF obj.k = "dataclass" THEN Ok(PyDict(HashingFields(obj.items)))
    ELSE IF obj.k = "object"
    THEN AsDict(_filter_dict_for_cache(PublicAttrs(obj.items), root, 1))
    ELSE Ok(PyStr(Str(obj)))

RECURSIVE JsonEncode(_, _, _)
RECURSIVE JsonEncodeElems(_, _, _)
RECURSIVE JsonEncodeEntries(_, _, _)

\* the encodings of the elements of a list, as a sequence of str
JsonEncodeElems(items, root, seen) ==
    IF items = <<>> THEN Ok(<<>>)
    ELSE Concat(One(JsonEncode(Head(items).val, root, seen)),
                JsonEncodeElems(Tail(items), root, seen))

\* the encodings "key":value of the entries of a dict
JsonEncodeEntries(items, root, seen) ==
    IF items = <<>> THEN Ok(<<>>)
    ELSE Concat(One(Prefixed(JsonString(Head(items).key) \o S(<<":">>),
                             JsonEncode(Head(items).val, root, seen))),
                JsonEncodeEntries(Tail(items), root, seen))

\* the encoded parts between brackets, separated by commas
Bracketed(open, parts, close) ==
    IF parts.ok THEN Ok(open \o Join(S(<<",">>), parts.v) \o close) ELSE parts

\* the encoding of what default= returned for an object json cannot encode
JsonEncodeDefault(d, root, seen) == IF d.ok THEN JsonEncode(d.v, root, seen) ELSE d

\* json.dumps(o, sort_keys=True, separators=(",", ":"), default=self._json_default).
\* seen: the dict argument root is already being encoded (check_circular).
JsonEncode(o, root, seen) ==
    CASE o.k = "NoneType" -> Ok(S(<<"n","u","l","l">>))
      [] o.k = "bool" -> Ok(IF o.i = 1 THEN S(<<"t","r","u","e">>) ELSE S(<<"f","a","l","s","e">>))
      [] o.k = "int" -> Ok(IntStr(o.i))
      [] o.k = "str" -> Ok(JsonString(o.s))
      [] o.k \in {"list", "tuple"} ->
            Bracketed(S(<<"[">>), JsonEncodeElems(o.items, root, seen), S(<<"]">>))
      [] o.k \in {"dict", "selfref"} ->
            IF o.k = "selfref" /\ seen THEN Raise("ValueError")
            ELSE Bracketed(S(<<"{">>), JsonEncodeEntries(SortedItems(DictItems(o, root)), root,
                                                  seen \/ o.k = "selfref"), S(<<"}">>))
      [] OTHER -> JsonEncodeDefault(_json_default(o, root), root, seen)

\* line 278: obj = dict(sorted(obj.items()))
SortedDict(filtered) ==
    IF filtered.ok THEN Ok(PyDict(SortedItems(filtered.v))) ELSE filtered

\* a conversion that sorts lists and tuples as it sorts sets
ListedSorted(obj, root) ==
    IF obj.k \in {"set", "list", "tuple"}
    THEN Ok(Val("list", <<>>, 0, <<>>, <<>>, SortedBySetKey(obj.items)))
    ELSE IF obj.k = "dict"
    THEN SortedDict(_filter_dict_for_cache(obj.items, root, 1))
    ELSE Ok(obj)

\* lines 269-278: the object _serialize_collection hands to json.dumps
Listed(obj, root) ==
    IF obj.k = "set"
    THEN Ok(Val("list", <<>>, 0, <<>>, <<>>, SortedBySetKey(obj.items)))
    ELSE IF obj.k = "tuple"
    THEN Ok(Val("list", <<>>, 0, <<>>, <<>>, obj.items))
    ELSE IF obj.k = "dict"
    THEN SortedDict(_filter_dict_for_cache(obj.items, root, 1))
    ELSE Ok(obj)

\* line 286: json_str = json.dumps(obj, ...)
Dumped(listed, root) == IF listed.ok THEN JsonEncode(listed.v, root, FALSE) ELSE listed

\* lines 289-292: the hash of a json_str longer than MAX_VALUE_LENGTH
HashedIfLong(json_str) ==
    IF ~json_str.ok THEN json_str
    ELSE IF StrLen(json_str.v) > MAX_VALUE_LENGTH THEN Ok(Sha256Hex(json_str.v, 16))
    ELSE json_str

\* _serialize_collection(obj, for_display=False); root is the argument obj
_serialize_collection(obj, root) == HashedIfLong(Dumped(Listed(obj, root), root))

\* _process_value(value) for the str value that json.dumps returned
_process_value(value) ==
    IF StrLen(value) > ConfigMaxValueLength
    THEN S(<<"_">>) \o Sha256Hex(value, 8)
    ELSE Replace(Replace(Replace(Replace(value, LF, Ch("_")), CR, Ch("_")), NUL, Ch("_")),
                 SPACE, Ch("_"))

---------------------------------------------------------------------------
(* KeyGenerator._simple_params and KeyGenerator.generate_key               *)

\* except (TypeError, ValueError) as e: raise UncachableArgumentError(...)
Uncachable(e) == IF e \in {"TypeError", "ValueError"} THEN "UncachableArgumentError" ELSE e

\* str(e) of the exception the encoder raises
ErrorText(e) == IF e = "ValueError" THEN S(<<"C","i","r","c","u","l","a","r"," ","r","e","f","e","r","e","n","c","e"," ","d","e","t","e","c","t","e","d">>) ELSE <<>>

\* f"{subject} of type '{type(value).__name__}' for function '{func.__qualname__}' {what}: "
Message(subject, value, func, what) ==
    subject \o S(<<" ","o","f"," ","t","y","p","e"," ","'">>) \o TypeName(value) \o S(<<"'"," ","f","o","r"," ","f","u","n","c","t","i","o","n"," ","'">>) \o func.qualname
    \o S(<<"'"," ">>) \o what \o S(<<":"," ">>)

\* a try block with that except clause around the call that gave r: the
\* UncachableArgumentError carries the message msg followed by str(e)
Try(r, msg) ==
    IF r.ok \/ Uncachable(r.e) = r.e THEN r
    ELSE [ok |-> FALSE, e |-> Uncachable(r.e), v |-> msg \o ErrorText(r.e)]

\* safe_value = self._process_value(serialized)
Processed(serialized) ==
    IF serialized.ok THEN Ok(_process_value(serialized.v)) ELSE serialized

\* serialized = json.dumps(value, ...); safe_value = self._process_value(serialized)
SafeValue(value) == Processed(JsonEncode(value, PyNone, FALSE))

\* if safe_value: simple_values.append(f"{pre}{safe_value}")
Token(pre, safe_value) ==
    IF ~safe_value.ok THEN safe_value
    ELSE IF safe_value.v # <<>> THEN Ok(<<pre \o safe_value.v>>)
    ELSE Ok(<<>>)

RECURSIVE RequestTokens(_, _)
\* lines 86-99: one key=value token per item of arg.GET
RequestTokens(items, func) ==
    IF items = <<>> THEN Ok(<<>>)
    ELSE Concat(Token(Head(items).key \o S(<<"=">>),
                      Try(SafeValue(Head(items).val),
                          Message(S(<<"R","e","q","u","e","s","t"," ","p","a","r","a","m","e","t","e","r"," ","'">>) \o Head(items).key \o S(<<"'">>),
                                  Head(items).val, func, S(<<"i","s"," ","n","o","t"," ","a","u","t","o","m","a","t","i","c","a","l","l","y"," ","c","a","c","h","a","b","l","e">>)))),
                RequestTokens(Tail(items), func))

\* lines 82-121: the tokens one positional argument appends to simple_values
ArgTokens(arg, func) ==
    IF HasAttr(arg, S(<<"p","k">>))
    THEN Ok(<<arg.c \o S(<<":">>) \o Str(GetAttr(arg, S(<<"p","k">>)))>>)
    ELSE IF HasAttr(arg, S(<<"G","E","T">>)) /\ GetAttr(arg, S(<<"G","E","T">>)).k = "dict"
    THEN RequestTokens(GetAttr(arg, S(<<"G","E","T">>)).items, func)
    ELSE IF arg.k \in {"dict", "list", "tuple", "set"}
    THEN One(Try(_serialize_collection(arg, arg),
                 Message(S(<<"A","r","g","u","m","e","n","t">>), arg, func, S(<<"c","o","n","t","a","i","n","s"," ","n","o","n","-","s","e","r","i","a","l","i","z","a","b","l","e"," ","o","b","j","e","c","t","s">>))))
    ELSE Token(<<>>, Try(SafeValue(arg),
                         Message(S(<<"A","r","g","u","m","e","n","t">>), arg, func, S(<<"i","s"," ","n","o","t"," ","a","u","t","o","m","a","t","i","c","a","l","l","y"," ","c","a","c","h","a","b","l","e">>))))

\* the keyword loop without the test of line 125
KwargTokensOfAnyName(key, value, func) ==
    IF value.k \in {"dict", "list", "tuple", "set"}
    THEN One(Prefixed(key \o S(<<"=">>),
                      Try(_serialize_collection(value, value),
                          Message(S(<<"K","e","y","w","o","r","d"," ","a","r","g","u","m","e","n","t"," ","'">>) \o key \o S(<<"'">>), value, func,
                                  S(<<"c","o","n","t","a","i","n","s"," ","n","o","n","-","s","e","r","i","a","l","i","z","a","b","l","e"," ","o","b","j","e","c","t","s">>)))))
    ELSE Token(key \o S(<<"=">>),
               Try(SafeValue(value),
                   Message(S(<<"K","e","y","w","o","r","d"," ","a","r","g","u","m","e","n","t"," ","'">>) \o key \o S(<<"'">>), value, func,
                           S(<<"i","s"," ","n","o","t"," ","a","u","t","o","m","a","t","i","c","a","l","l","y"," ","c","a","c","h","a","b","l","e">>))))

\* lines 125-151: the tokens one keyword argument appends to simple_values
KwargTokens(key, value, func) ==
    IF key \in {S(<<"r","e","q","u","e","s","t">>), S(<<"a","r","g","s">>), S(<<"k","w","a","r","g","s">>)}
    THEN Ok(<<>>)
    ELSE IF value.k \in {"dict", "list", "tuple", "set"}
    THEN One(Prefixed(key \o S(<<"=">>),
                      Try(_serialize_collection(value, value),
                          Message(S(<<"K","e","y","w","o","r","d"," ","a","r","g","u","m","e","n","t"," ","'">>) \o key \o S(<<"'">>), value, func,
                                  S(<<"c","o","n","t","a","i","n","s"," ","n","o","n","-","s","e","r","i","a","l","i","z","a","b","l","e"," ","o","b","j","e","c","t","s">>)))))
    ELSE Token(key \o S(<<"=">>),
               Try(SafeValue(value),
                   Message(S(<<"K","e","y","w","o","r","d"," ","a","r","g","u","m","e","n","t"," ","'">>) \o key \o S(<<"'">>), value, func,
                           S(<<"i","s"," ","n","o","t"," ","a","u","t","o","m","a","t","i","c","a","l","l","y"," ","c","a","c","h","a","b","l","e">>))))

RECURSIVE ArgsTokens(_, _)
\* for i, arg in enumerate(filtered_args)
ArgsTokens(args, func) ==
    IF args = <<>> THEN Ok(<<>>)
    ELSE Concat(ArgTokens(Head(args), func), ArgsTokens(Tail(args), func))

RECURSIVE KwargsTokens(_, _)
\* for key, value in kwargs.items()
KwargsTokens(kwargs, func) ==
    IF kwargs = <<>> THEN Ok(<<>>)
    ELSE Concat(KwargTokens(Head(kwargs).key, Head(kwargs).val, func),
                KwargsTokens(Tail(kwargs), func))

\* the receiver kept among the arguments
UnfilteredArgs(func, args) == args

\* args[1:] if has_self and args else args
FilteredArgs(func, args) ==
    IF func.params # <<>> /\ func.params[1] = S(<<"s","e","l","f">>) /\ args # <<>> THEN Tail(args) ELSE args

\* line 154: "&".join(simple_values)
Joined(simple_values) ==
    IF simple_values.ok THEN Ok(Join(S(<<"&">>), simple_values.v)) ELSE simple_values

\* the str _simple_params returns, or the exception it raises
_simple_params(func, args, kwargs) ==
    Joined(Concat(ArgsTokens(FilteredArgs(func, args), func), KwargsTokens(kwargs, func)))

\* f"{func.__module__}.{func.__qualname__}"
FunctionName(func) == func.module \o S(<<".">>) \o func.qualname

\* lines 52-62: the key from key_parts = [self.function_name, hashed_params]
KeyFromParts(self_prefix, self_function_name, hashed_params, expiration_date) ==
    LET key_parts == <<self_function_name, hashed_params>>
                     \o (IF expiration_date.k = "datetime"
                         THEN <<StrfTime(expiration_date.t)>> ELSE <<>>)
        cache_key == Join(S(<<"_">>), SelectSeq(key_parts, LAMBDA part : part # <<>>))
    IN self_prefix \o S(<<":">>) \o cache_key

\* the parameter string put into the key as it is
UnhashedParams(self_original_params) == self_original_params

\* line 51: hashlib.sha256(self.original_params.encode()).hexdigest()[:16]
HashedParams(self_original_params) == Sha256Hex(self_original_params, 16)

\* lines 51-62: the key from the generator's fields as they are read
CacheKey(self_prefix, self_function_name, self_original_params, expiration_date) ==
    KeyFromParts(self_prefix, self_function_name, HashedParams(self_original_params),
                 expiration_date)

\* lines 51-62 once _simple_params has returned params, or raised
KeyOf(self_prefix, func, params, expiration_date) ==
    IF params.ok
    THEN Ok(CacheKey(self_prefix, FunctionName(func), params.v, expiration_date))
    ELSE params

\* generate_key run alone: the key it returns, or the exception it raises
generate_key(self_prefix, func, args, kwargs, expiration_date) ==
    KeyOf(self_prefix, func, _simple_params(func, args, kwargs), expiration_date)

\* a length test that also refuses a key of 250 characters
ValidateBelowLimit(cache_key) ==
    IF StrLen(cache_key) >= 250 THEN Raise("CacheKeyValidationError")
    ELSE IF \E char \in {LF, CR, NUL} : Contains(cache_key, char)
    THEN Raise("CacheKeyValidationError")
    ELSE Ok(<<>>)

\* validate_cache_key(cache_key): returns None or raises
validate_cache_key(cache_key) ==
    IF StrLen(cache_key) > 250 THEN Raise("CacheKeyValidationError")
    ELSE IF \E char \in {LF, CR, NUL} : Contains(cache_key, char)
    THEN Raise("CacheKeyValidationError")
    ELSE Ok(<<>>)

---------------------------------------------------------------------------
(* The calls the model makes                                               *)

\* def f(data): a plain function (the tests' _test_function)
Func_f == [module |-> S(<<"t","e","s","t","s">>), qualname |-> S(<<"f">>), params |-> <<S(<<"d","a","t","a">>)>>]
\* def g(self, x): a method of class DataPipeline
Func_g == [module |-> S(<<"t","e","s","t","s">>), qualname |-> S(<<"D","a","t","a","P","i","p","e","l","i","n","e",".","g">>), params |-> <<S(<<"s","e","l","f">>), S(<<"x">>)>>]

DT1 == PyDatetime(2025, 1, 1, 12, 0, 0, 0)
DT2 == PyDatetime(2025, 1, 2, 13, 30, 5, 250)
UUID1 == PyUUID(S(<<"6","f","1","c","-","4","2">>))
ExcludedSamples == {DT1, DT2, UUID1}

Pipeline(dataset_id) == PyObject(S(<<"D","a","t","a","P","i","p","e","l","i","n","e">>), <<Entry(S(<<"d","a","t","a","s","e","t","_","i","d">>), PyStr(dataset_id))>>)
Pipeline1 == Pipeline(S(<<"s","a","l","e","s","_","d","a","t","a">>))
Pipeline2 == Pipeline(S(<<"u","s","e","r","_","b","e","h","a","v","i","o","r">>))

\* the longest str whose JSON form is not hashed, and the shortest that is
StrAtLimit == PyStr(Repeat(Ch("x"), MAX_VALUE_LENGTH - 2))
StrOverLimit == PyStr(Repeat(Ch("x"), MAX_VALUE_LENGTH - 1))

Bijections(n) == {p \in [1..n -> 1..n] : \A i, j \in 1..n : p[i] = p[j] => i = j}

\* the sequences that take their i-th element from choices[i]
Products(choices) ==
    LET n == Len(choices)
    IN IF n = 0 THEN {<<>>}
       ELSE {q \in [1..n -> UNION {choices[i] : i \in 1..n}] : \A i \in 1..n : q[i] \in choices[i]}

RECURSIVE Reorderings(_)
\* the values equal to v but for the insertion order of the dicts in it
Reorderings(v) ==
    IF v.k \in {"dict", "list", "tuple"}
    THEN LET n == Len(v.items)
             inner == Products([i \in 1..n |->
                         {Entry(v.items[i].key, w) : w \in Reorderings(v.items[i].val)}])
         IN IF v.k = "dict"
            THEN {[v EXCEPT !.items = [i \in 1..n |-> q[p[i]]]] : q \in inner, p \in Bijections(n)}
            ELSE {[v EXCEPT !.items = q] : q \in inner}
    ELSE {v}

DictFlat == PyDict(<<Entry(S(<<"a">>), PyInt(1)), Entry(S(<<"b">>), PyInt(2)), Entry(S(<<"c">>), PyStr(S(<<"N","Y","C">>)))>>)
DictNested ==
    PyDict(<<Entry(S(<<"o">>), PyDict(<<Entry(S(<<"x">>), PyInt(10)), Entry(S(<<"y">>), PyInt(20))>>)),
             Entry(S(<<"l">>), PyList(<<PyDict(<<Entry(S(<<"p">>), PyInt(1)), Entry(S(<<"q">>), PyNone)>>)>>))>>)

\* dicts, lists and arguments that hold a value X of an excluded type
WithExcluded(X) ==
    { PyDict(<<Entry(S(<<"i","d">>), PyInt(1)), Entry(S(<<"t">>), X)>>),
      PyDict(<<Entry(S(<<"m">>), PyDict(<<Entry(S(<<"n">>), PyDict(<<Entry(S(<<"t">>), X), Entry(S(<<"d">>), PyStr(S(<<"s">>)))>>))>>))>>),
      PyDict(<<Entry(S(<<"e">>), PyList(<<X, PyDict(<<Entry(S(<<"n">>), PyInt(1)), Entry(S(<<"t">>), X)>>), PyInt(2)>>))>>),
      PyDict(<<Entry(S(<<"e">>), PyList(<<PyDict(<<Entry(S(<<"f">>), PyList(<<X>>))>>)>>))>>),
      PyDict(<<Entry(S(<<"e">>), PyList(<<PyList(<<X>>)>>))>>),
      PyDict(<<Entry(S(<<"e">>), PyTuple(<<X, PyInt(1)>>))>>),
      PyList(<<X, PyInt(1)>>),
      PyList(<<PyDict(<<Entry(S(<<"i","d">>), PyInt(1)), Entry(S(<<"t">>), X)>>)>>),
      PyTuple(<<X>>),
      X }

\* d = {}; d["a"] = (d,)
CircularInTuple == PyDict(<<Entry(S(<<"a">>), PyTuple(<<SelfRef>>))>>)

\* d = {"a": 1}; d["self"] = d
CircularDict == PyDict(<<Entry(S(<<"a">>), PyInt(1)), Entry(S(<<"s","e","l","f">>), SelfRef)>>)

Expiry1 == PyDatetime(2025, 9, 5, 14, 30, 0, 0)
\* half a second and one second after Expiry1
Expiry1Half == PyDatetime(2025, 9, 5, 14, 30, 0, 500000)
Expiry2 == PyDatetime(2025, 9, 5, 14, 30, 1, 0)

Call(func, args, kwargs, expiration_date) ==
    [func |-> func, args |-> args, kwargs |-> kwargs, exp |-> expiration_date]

\* scalars and collections at the length limit, a method called on two
\* receivers, a self-referential dict, three expiration dates
Calls ==
    {Call(Func_f, <<v>>, <<>>, PyNone) :
        v \in { PyInt(1), PyStr(S(<<"a","b">>)), PyStr(S(<<"a"," ","b">>)), StrAtLimit, StrOverLimit,
                PyList(<<PyStr(Repeat(Ch("x"), MAX_VALUE_LENGTH - 4))>>),
                PyList(<<PyStr(Repeat(Ch("x"), MAX_VALUE_LENGTH - 3))>>),
                CircularDict }}
    \cup {Call(Func_f, <<>>, <<Entry(S(<<"d","a","t","a">>), StrOverLimit)>>, PyNone)}
    \cup {Call(Func_f, <<PyInt(1), CircularInTuple>>, <<>>, PyNone),
          Call(Func_f, <<>>, <<Entry(S(<<"c","f","g">>), CircularInTuple)>>, PyNone)}
    \cup {Call(Func_g, <<inst, PyInt(x)>>, <<>>, PyNone) :
        inst \in {Pipeline1, Pipeline2}, x \in {5, 6}}
    \cup {Call(Func_f, <<PyInt(1)>>, <<>>, exp) : exp \in {Expiry1, Expiry1Half, Expiry2}}

\* dicts in every insertion order, as a positional and as a keyword
\* argument, and keyword arguments in both orders
OrderCalls ==
    {Call(Func_f, <<v>>, <<>>, PyNone) : v \in Reorderings(DictFlat) \cup Reorderings(DictNested)}
    \cup {Call(Func_f, <<>>, <<Entry(S(<<"d","a","t","a">>), v)>>, PyNone) : v \in Reorderings(DictNested)}
    \cup {Call(Func_f, <<>>, kw, PyNone) :
            kw \in {<<Entry(S(<<"a">>), PyInt(1)), Entry(S(<<"b">>), PyInt(2))>>,
                    <<Entry(S(<<"b">>), PyInt(2)), Entry(S(<<"a">>), PyInt(1))>>}}

\* arguments that hold values of the excluded types
ExcludeCalls ==
    {Call(Func_f, <<v>>, <<>>, PyNone) : v \in UNION {WithExcluded(X) : X \in ExcludedSamples}}
    \cup {Call(Func_f, <<>>, <<Entry(S(<<"t">>), X)>>, PyNone) : X \in ExcludedSamples}
    \cup {Call(Func_f, <<>>, <<Entry(S(<<"d","a","t","a">>), PyDict(<<Entry(S(<<"i","d">>), PyInt(1)), Entry(S(<<"t">>), X)>>))>>,
                PyNone) : X \in ExcludedSamples}

\* class User with a primary key and one more attribute
User(pk, name) == PyObject(S(<<"U","s","e","r">>), <<Entry(S(<<"p","k">>), pk), Entry(S(<<"n","a","m","e">>), PyStr(name))>>)
Users ==
    {User(PyInt(7), S(<<"a","n","n">>)), User(PyInt(7), S(<<"b","o","b">>)), User(PyInt(8), S(<<"a","n","n">>)),
     User(PyStr(S(<<"a"," ","b">>)), S(<<"a","n","n">>)), User(PyStr(S(<<"a","_","b">>)), S(<<"a","n","n">>))}

\* None among the arguments; dicts with and without a None-valued or an
\* excluded entry; dicts that differ in a stable field; persisted entities
\* as arguments and inside collections
FieldCalls ==
    {Call(Func_f, a, <<>>, PyNone) :
        a \in {<<>>, <<PyNone>>, <<PyInt(1)>>, <<PyInt(1), PyNone>>, <<PyNone, PyInt(1)>>}}
    \cup {Call(Func_f, a, <<Entry(S(<<"x">>), PyNone)>>, PyNone) : a \in {<<>>, <<PyInt(1)>>}}
    \cup {Call(Func_f, <<PyDict(d)>>, <<>>, PyNone) :
            d \in { <<>>,
                    <<Entry(S(<<"k">>), PyNone)>>,
                    <<Entry(S(<<"k">>), DT1)>>,
                    <<Entry(S(<<"i","d">>), PyInt(1))>>,
                    <<Entry(S(<<"i","d">>), PyInt(1)), Entry(S(<<"o","p","t","i","o","n","a","l">>), PyNone)>>,
                    <<Entry(S(<<"o","p","t","i","o","n","a","l">>), PyNone), Entry(S(<<"i","d">>), PyInt(1))>>,
                    <<Entry(S(<<"i","d">>), PyInt(1)), Entry(S(<<"o","p","t","i","o","n","a","l">>), UUID1)>>,
                    <<Entry(S(<<"i","d">>), PyInt(2)), Entry(S(<<"o","p","t","i","o","n","a","l">>), PyNone)>>,
                    <<Entry(S(<<"u","s","e","r","_","i","d">>), PyInt(1)), Entry(S(<<"t">>), DT1)>>,
                    <<Entry(S(<<"u","s","e","r","_","i","d">>), PyInt(2)), Entry(S(<<"t">>), DT2)>>,
                    <<Entry(S(<<"u","s","e","r","_","i","d">>), PyInt(1)), Entry(S(<<"t">>), DT2)>>,
                    <<Entry(S(<<"u">>), PyDict(<<Entry(S(<<"i","d">>), PyStr(S(<<"a"," ","b">>))), Entry(S(<<"t">>), DT1)>>))>>,
                    <<Entry(S(<<"u">>), PyDict(<<Entry(S(<<"i","d">>), PyStr(S(<<"a","_","b">>))), Entry(S(<<"t">>), DT2)>>))>> }}
    \cup {Call(Func_f, <<v>>, <<>>, PyNone) :
            v \in UNION {{u, PyList(<<u>>), PyDict(<<Entry(S(<<"u">>), u)>>)} : u \in Users}}
    \cup {Call(Func_f, <<>>, <<Entry(S(<<"x">>), u)>>, PyNone) : u \in Users}

\* the sets that hold the values vals, in every iteration order
SetOrders(vals) ==
    {PySet([i \in 1..Len(vals) |-> vals[p[i]]]) : p \in Bijections(Len(vals))}

\* the lists that hold the values vals, in every order
ListOrders(vals) ==
    {PyList([i \in 1..Len(vals) |-> vals[p[i]]]) : p \in Bijections(Len(vals))}

\* sets as arguments and as dict values in every iteration order, lists and
\* tuples in several orders, a list long enough to be hashed
CollectionCalls ==
    {Call(Func_f, <<v>>, <<>>, PyNone) :
        v \in SetOrders(<<PyInt(3), PyInt(1), PyInt(2)>>)
              \cup SetOrders(<<PyStr(S(<<"b">>)), PyStr(S(<<"a">>)), PyInt(10)>>)
              \cup SetOrders(<<PyTuple(<<PyInt(1), PyInt(2)>>), PyTuple(<<PyInt(3), PyInt(4)>>)>>)
              \cup ListOrders(<<PyInt(1), PyInt(2), PyInt(3)>>)
              \cup ListOrders(<<PyStr(Repeat(Ch("x"), 60)), PyStr(Repeat(Ch("y"), 60))>>)
              \cup {PyTuple(<<PyInt(1), PyInt(2)>>), PyTuple(<<PyInt(2), PyInt(1)>>)} }
    \cup {Call(Func_f, <<>>, <<Entry(S(<<"d","a","t","a">>), v)>>, PyNone) :
            v \in SetOrders(<<PyInt(0), PyInt(8)>>) \cup ListOrders(<<PyInt(1), PyInt(2)>>)}
    \cup {Call(Func_f, <<PyDict(<<Entry(S(<<"s">>), v)>>)>>, <<>>, PyNone) :
            v \in SetOrders(<<PyInt(0), PyInt(8)>>) \cup SetOrders(<<PyStr(S(<<"a">>)), PyStr(S(<<"b">>))>>)}
    \cup {Call(Func_f, <<PyDict(<<Entry(S(<<"m">>), PyDict(<<Entry(S(<<"s">>), v)>>))>>)>>, <<>>, PyNone) :
            v \in SetOrders(<<PyInt(0), PyInt(8)>>)}

\* a dataclass UserProfile with fields user_id: int, name: str and, declared
\* with field(hash=False), last_login: datetime and visits: int
UserProfile(user_id, name, last_login, visits) ==
    PyDataclass(S(<<"U","s","e","r","P","r","o","f","i","l","e">>),
                <<Entry(S(<<"u","s","e","r","_","i","d">>), Field(PyInt(user_id), TRUE)),
                  Entry(S(<<"n","a","m","e">>), Field(PyStr(name), TRUE)),
                  Entry(S(<<"l","a","s","t","_","l","o","g","i","n">>), Field(last_login, FALSE)),
                  Entry(S(<<"v","i","s","i","t","s">>), Field(PyInt(visits), FALSE))>>)

\* class ObjectWithExclusion, with self._cache_exclude_ = ["updated_at", "count"]
ObjectWithExclusion(id, count, updated_at) ==
    PyObject(S(<<"O","b","j","e","c","t","W","i","t","h","E","x","c","l","u","s","i","o","n">>),
             <<Entry(S(<<"i","d">>), PyInt(id)), Entry(S(<<"c","o","u","n","t">>), PyInt(count)),
               Entry(S(<<"u","p","d","a","t","e","d","_","a","t">>), updated_at),
               Entry(S(<<"_","c","a","c","h","e","_","e","x","c","l","u","d","e","_">>), PyList(<<PyStr(S(<<"u","p","d","a","t","e","d","_","a","t">>)), PyStr(S(<<"c","o","u","n","t">>))>>))>>)

\* a request whose GET holds the query parameters get, in that order
Request(path, get) ==
    PyObject(S(<<"W","S","G","I","R","e","q","u","e","s","t">>), <<Entry(S(<<"p","a","t","h">>), PyStr(path)), Entry(S(<<"G","E","T">>), PyDict(get))>>)

Requests ==
    {Request(path, get) :
        path \in {S(<<"/">>), S(<<"/","d","a","s","h","b","o","a","r","d","/">>)},
        get \in { <<>>,
                  <<Entry(S(<<"u","s","e","r","_","i","d">>), PyStr(S(<<"1">>))), Entry(S(<<"q">>), PyStr(S(<<"a"," ","b">>)))>>,
                  <<Entry(S(<<"q">>), PyStr(S(<<"a"," ","b">>))), Entry(S(<<"u","s","e","r","_","i","d">>), PyStr(S(<<"1">>)))>>,
                  <<Entry(S(<<"u","s","e","r","_","i","d">>), PyStr(S(<<"1">>))), Entry(S(<<"q">>), PyStr(S(<<"a","_","b">>)))>>,
                  <<Entry(S(<<"u","s","e","r","_","i","d">>), PyStr(S(<<"2">>))), Entry(S(<<"q">>), PyStr(S(<<"a"," ","b">>)))>> }}

\* strings, dataclass instances, objects with _cache_exclude_ and requests as
\* the one positional argument; keyword arguments named request, args, kwargs
ObjectCalls ==
    {Call(Func_f, <<v>>, <<>>, PyNone) :
        v \in {PyStr(S(<<"a","b">>)), PyStr(S(<<"a"," ","b">>)), PyStr(S(<<"a","_","b">>))}
             \cup {UserProfile(u, n, l, v) :
                      u \in {1, 2}, n \in {S(<<"a"," ","b">>), S(<<"a","_","b">>)}, l \in {PyNone, DT1}, v \in {1, 2}}
             \cup {ObjectWithExclusion(i, c, u) : i \in {1, 2}, c \in {1, 2}, u \in {DT1, DT2}}
             \cup Requests}
    \cup {Call(Func_f, <<PyInt(1)>>, kw, PyNone) :
            kw \in { <<>>,
                     <<Entry(S(<<"x">>), PyInt(1))>>,
                     <<Entry(S(<<"x">>), PyInt(2))>>,
                     <<Entry(S(<<"a","r","g","s">>), PyTuple(<<PyInt(1), PyInt(2)>>))>>,
                     <<Entry(S(<<"k","w","a","r","g","s">>), PyDict(<<Entry(S(<<"x">>), PyInt(1))>>))>>,
                     <<Entry(S(<<"x">>), PyInt(1)), Entry(S(<<"r","e","q","u","e","s","t">>), PyInt(5))>>,
                     <<Entry(S(<<"r","e","q","u","e","s","t">>), PyInt(5)), Entry(S(<<"x">>), PyInt(1))>> }
                   \cup {<<Entry(S(<<"r","e","q","u","e","s","t">>), r)>> : r \in Requests}}

\* keys at and over Django's limit, and keys with a control character
SampleKeys ==
    {Repeat(Ch("k"), n) : n \in {0, 249, 250, 251}}
    \cup {S(<<"a">>) \o <<c>> \o S(<<"b">>) : c \in {LF, CR, NUL, SPACE}}

DefaultPrefix == S(<<"e","a","s","y","_","c","a","c","h","e">>)
Prefixes == {DefaultPrefix, S(<<"c","a","c","h","e">>) \o <<LF>>, Repeat(Ch("p"), 240)}

---------------------------------------------------------------------------
(* State                                                                   *)

VARIABLES
    prefix,            \* self.prefix
    function_name,     \* self.function_name: PyNone or a PyStr
    original_params,   \* self.original_params: PyNone or a PyStr
    last,              \* the latest generate_key call and what it returned
    prev,              \* the call before it
    threads,           \* the frame of each thread that runs generate_key
    cache,             \* the backend store: the entries set by the decorators
    invoked,           \* the <<instance, stage>> pairs whose wrapper has run
    served,            \* the latest call of a cached method and what it returned
    constructed,       \* the constructor call KeyGenerator(**kwargs) and its outcome
    checked            \* the latest validate_cache_key call and its outcome

vars == <<prefix, function_name, original_params, last, prev, threads, cache, invoked, served,
          constructed, checked>>

NumThreads == 2
Threads == 1..NumThreads

NoCall ==
    [called |-> FALSE, func |-> Func_f, args |-> <<>>, kwargs |-> <<>>, exp |-> PyNone,
     ok |-> FALSE, e |-> "", msg |-> <<>>, key |-> <<>>, params |-> PyNone]

IdleThread ==
    [pc |-> "idle", call |-> Call(Func_f, <<>>, <<>>, PyNone), hashed_params |-> <<>>,
     key_parts |-> <<>>, ok |-> FALSE, e |-> "", key |-> <<>>]

NoServe == [called |-> FALSE, inst |-> PyNone, stage |-> 1, value |-> PyNone]

NoCheck == [called |-> FALSE, key |-> <<>>, ok |-> FALSE, e |-> ""]

\* def __init__(self, prefix: str = "easy_cache"): the prefix of the new
\* generator, or the TypeError of a keyword the signature does not have
__init__(kwargs) ==
    IF \E i \in 1..Len(kwargs) : kwargs[i].key # S(<<"p","r","e","f","i","x">>)
    THEN Raise("TypeError")
    ELSE IF kwargs = <<>> THEN Ok(DefaultPrefix)
    ELSE Ok(kwargs[Len(kwargs)].val.s)

\* the state once __init__ returned or raised r: no thread runs, the store
\* is empty; a constructor that raised leaves no generator to call
Constructs(kwargs, r) ==
    /\ constructed = [kwargs |-> kwargs, ok |-> r.ok, e |-> r.e]
    /\ prefix = r.v
    /\ function_name = PyNone
    /\ original_params = PyNone
    /\ last = NoCall
    /\ prev = NoCall
    /\ threads = [t \in Threads |-> IdleThread]
    /\ cache = {}
    /\ invoked = {}
    /\ served = NoServe
    /\ checked = NoCheck

\* KeyGenerator(**kwargs)
Construct(kwargs) == Constructs(kwargs, __init__(kwargs))

\* a generator that keeps the first parameter string it stored
StaleParams(self_original_params, r) ==
    IF self_original_params.k = "NoneType" /\ r.ok THEN PyStr(r.v) ELSE self_original_params

\* line 49: what self.original_params holds once _simple_params returned or
\* raised r (an exception leaves the field as it was)
StoredParams(self_original_params, r) ==
    IF r.ok THEN PyStr(r.v) ELSE self_original_params

\* lines 48-62 of a call c whose _simple_params returned or raised r: the
\* key is built from the fields as lines 51-52 read them back
Returns(c, r) ==
    /\ constructed.ok
    /\ function_name' = PyStr(FunctionName(c.func))
    /\ original_params' = StoredParams(original_params, r)
    /\ last' = [called |-> TRUE, func |-> c.func, args |-> c.args, kwargs |-> c.kwargs,
                exp |-> c.exp, ok |-> r.ok, e |-> r.e, msg |-> IF r.ok THEN <<>> ELSE r.v,
                key |-> IF r.ok
                        THEN CacheKey(prefix, function_name'.s, original_params'.s, c.exp)
                        ELSE <<>>,
                params |-> original_params']
    /\ prev' = last
    /\ UNCHANGED <<prefix, threads, cache, invoked, served, constructed, checked>>

\* kg.generate_key(func=..., args=..., kwargs=..., expiration_date=...)
GenerateKey(c) == Returns(c, _simple_params(c.func, c.args, c.kwargs))

Init == \E p \in Prefixes : Construct(<<Entry(S(<<"p","r","e","f","i","x">>), PyStr(p))>>)
Next == \E c \in Calls : GenerateKey(c)
Spec == Init /\ [][Next]_vars

\* kg.validate_cache_key(cache_key): the outcome, recorded in checked
Validates(cache_key, r) ==
    /\ constructed.ok
    /\ checked' = [called |-> TRUE, key |-> cache_key, ok |-> r.ok, e |-> r.e]
    /\ UNCHANGED <<prefix, function_name, original_params, last, prev, threads, cache,
                   invoked, served, constructed>>

ValidateCacheKey(cache_key) == Validates(cache_key, validate_cache_key(cache_key))

\* KeyGenerator()
InitOrder == Construct(<<>>)
NextOrder == \E c \in OrderCalls : GenerateKey(c)
SpecOrder == InitOrder /\ [][NextOrder]_vars

\* KeyGenerator() and KeyGenerator(auto_exclude=False)
InitExclude ==
    \E kw \in {<<>>, <<Entry(S(<<"a","u","t","o","_","e","x","c","l","u","d","e">>), PyBool(FALSE))>>} : Construct(kw)
NextExclude == \E c \in ExcludeCalls : GenerateKey(c)
SpecExclude == InitExclude /\ [][NextExclude]_vars

NextFields == \E c \in FieldCalls : GenerateKey(c)
SpecFields == InitOrder /\ [][NextFields]_vars

NextCollections == \E c \in CollectionCalls : GenerateKey(c)
SpecCollections == InitOrder /\ [][NextCollections]_vars

NextObjects == \E c \in ObjectCalls : GenerateKey(c)
SpecObjects == InitOrder /\ [][NextObjects]_vars

---------------------------------------------------------------------------
(* generate_key run by several threads on one KeyGenerator: a thread can   *)
(* be preempted between any two statements of lines 48-62                  *)

ThreadCalls ==
    { Call(Func_f, <<PyInt(1)>>, <<>>, PyNone),
      Call(Func_f, <<PyInt(2)>>, <<>>, PyNone),
      Call(Func_g, <<Pipeline1, PyInt(5)>>, <<>>, Expiry1),
      Call(Func_f, <<CircularDict>>, <<>>, PyNone) }

\* a thread enters generate_key
Invoke(t, c) ==
    /\ constructed.ok
    /\ threads[t].pc \in {"idle", "done"}
    /\ threads' = [threads EXCEPT ![t] = [IdleThread EXCEPT !.pc = "line48", !.call = c]]
    /\ UNCHANGED <<prefix, function_name, original_params, last, prev, cache, invoked, served, constructed, checked>>

\* line 48: self.function_name = f"{func.__module__}.{func.__qualname__}"
Line48(t) ==
    /\ threads[t].pc = "line48"
    /\ function_name' = PyStr(FunctionName(threads[t].call.func))
    /\ threads' = [threads EXCEPT ![t].pc = "line49"]
    /\ UNCHANGED <<prefix, original_params, last, prev, cache, invoked, served, constructed, checked>>

\* line 49 of thread t whose _simple_params returned or raised r
Assigns(t, r) ==
    /\ original_params' = IF r.ok THEN PyStr(r.v) ELSE original_params
    /\ threads' = IF r.ok THEN [threads EXCEPT ![t].pc = "line51"]
                  ELSE [threads EXCEPT ![t].pc = "done", ![t].e = r.e]
    /\ UNCHANGED <<prefix, function_name, last, prev, cache, invoked, served, constructed, checked>>

\* line 49: self.original_params = self._simple_params(...), or the error it raises
Line49(t) ==
    /\ threads[t].pc = "line49"
    /\ Assigns(t, _simple_params(threads[t].call.func, threads[t].call.args,
                                 threads[t].call.kwargs))

\* line 51: hashed_params = sha256(self.original_params.encode()).hexdigest()[:16]
Line51(t) ==
    /\ threads[t].pc = "line51"
    /\ threads' = [threads EXCEPT ![t].pc = "line52",
                                  ![t].hashed_params = HashedParams(original_params.s)]
    /\ UNCHANGED <<prefix, function_name, original_params, last, prev, cache, invoked, served, constructed, checked>>

\* line 52: key_parts = [self.function_name, hashed_params]
Line52(t) ==
    /\ threads[t].pc = "line52"
    /\ threads' = [threads EXCEPT ![t].pc = "line55", ![t].key_parts = function_name.s]
    /\ UNCHANGED <<prefix, function_name, original_params, last, prev, cache, invoked, served, constructed, checked>>

\* lines 55-62: the expiration part, the join, the return
Line55(t) ==
    /\ threads[t].pc = "line55"
    /\ threads' = [threads EXCEPT ![t].pc = "done", ![t].ok = TRUE,
                                  ![t].key = KeyFromParts(prefix, threads[t].key_parts,
                                                          threads[t].hashed_params,
                                                          threads[t].call.exp)]
    /\ UNCHANGED <<prefix, function_name, original_params, last, prev, cache, invoked, served, constructed, checked>>


NextThreads ==
    \E t \in Threads :
        \/ \E c \in ThreadCalls : Invoke(t, c)
        \/ Line48(t)
        \/ Line49(t)
        \/ Line51(t)
        \/ Line52(t)
        \/ Line55(t)

SpecThreads == InitOrder /\ [][NextThreads]_vars

\* validate_cache_key called between calls of generate_key
NextValidate ==
    \/ \E c \in ThreadCalls : GenerateKey(c)
    \/ \E k \in SampleKeys : ValidateCacheKey(k)
    \/ last.ok /\ ValidateCacheKey(last.key)
SpecValidate == Init /\ [][NextValidate]_vars

---------------------------------------------------------------------------
(* The cached methods of DataPipeline: each stage is wrapped by a          *)
(* decorator that asks the KeyGenerator for the key, returns the stored    *)
(* value on a hit, and on a miss runs the method and stores its result     *)

Method(qualname) == [module |-> S(<<"t","e","s","t","s">>), qualname |-> qualname, params |-> <<S(<<"s","e","l","f">>)>>]

\* extract_raw_data, transform_data (calls extract_raw_data) and
\* generate_insights (calls transform_data)
StageFuncs ==
    << Method(S(<<"D","a","t","a","P","i","p","e","l","i","n","e",".","e","x","t","r","a","c","t","_","r","a","w","_","d","a","t","a">>)),
       Method(S(<<"D","a","t","a","P","i","p","e","l","i","n","e",".","t","r","a","n","s","f","o","r","m","_","d","a","t","a">>)),
       Method(S(<<"D","a","t","a","P","i","p","e","l","i","n","e",".","g","e","n","e","r","a","t","e","_","i","n","s","i","g","h","t","s">>)) >>

Stages == 1..Len(StageFuncs)
Pipelines == {Pipeline1, Pipeline2}

\* what the body of a stage returns for the instance it runs on
StageResult(inst, stage) ==
    PyDict(<<Entry(S(<<"d","a","t","a","s","e","t","_","i","d">>), GetAttr(inst, S(<<"d","a","t","a","s","e","t","_","i","d">>))), Entry(S(<<"s","t","a","g","e">>), PyInt(stage))>>)

RECURSIVE CachedCall(_, _, _, _)

\* a miss: the body has run (the stage below it through its own wrapper,
\* which left below) and its result is stored under key
Miss(key, inst, stage, below) ==
    [store |-> below.store \cup {[key |-> key, function_name |-> FunctionName(StageFuncs[stage]),
                                  value |-> StageResult(inst, stage)]},
     value |-> StageResult(inst, stage),
     ran |-> below.ran \cup {<<inst, stage>>},
     function_name |-> below.function_name]

\* the wrapper of a stage once the key is generated: the store and the
\* function_name it leaves, the value it returns, the wrappers that ran
Wrapper(key, self_prefix, store, inst, stage) ==
    IF \E en \in store : en.key = key
    THEN [store |-> store, value |-> (CHOOSE en \in store : en.key = key).value,
          ran |-> {<<inst, stage>>}, function_name |-> FunctionName(StageFuncs[stage])]
    ELSE Miss(key, inst, stage,
              IF stage > 1 THEN CachedCall(self_prefix, store, inst, stage - 1)
              ELSE [store |-> store, value |-> PyNone, ran |-> {},
                    function_name |-> FunctionName(StageFuncs[stage])])

\* the wrapper of a stage called on inst with the store as it is
CachedCall(self_prefix, store, inst, stage) ==
    Wrapper(generate_key(self_prefix, StageFuncs[stage], <<inst>>, <<>>, Expiry1).v,
            self_prefix, store, inst, stage)

\* the state a call of a cached method leaves when its wrapper gave r
Serves(inst, stage, r) ==
    /\ constructed.ok
    /\ cache' = r.store
    /\ invoked' = invoked \cup r.ran
    /\ served' = [called |-> TRUE, inst |-> inst, stage |-> stage, value |-> r.value]
    /\ function_name' = PyStr(r.function_name)
    /\ original_params' = PyStr(_simple_params(StageFuncs[stage], <<inst>>, <<>>).v)
    /\ UNCHANGED <<prefix, last, prev, threads, constructed, checked>>

\* inst.extract_raw_data(), inst.transform_data() or inst.generate_insights()
CallCached(inst, stage) == Serves(inst, stage, CachedCall(prefix, cache, inst, stage))

NextCache == \E inst \in Pipelines, stage \in Stages : CallCached(inst, stage)
SpecCache == InitOrder /\ [][NextCache]_vars

---------------------------------------------------------------------------
(* Properties                                                              *)

BothCalled == prev.called /\ last.called

SameResult == prev.ok /\ last.ok /\ prev.key = last.key /\ prev.params = last.params

RECURSIVE SameUpToDictOrder(_, _)
\* v and w are equal but for the insertion order of the dicts in them
SameUpToDictOrder(v, w) ==
    IF v.k # w.k \/ Len(v.items) # Len(w.items) THEN FALSE
    ELSE IF v.k = "dict"
    THEN \A i \in 1..Len(v.items) : \E j \in 1..Len(w.items) :
            /\ w.items[j].key = v.items[i].key
            /\ SameUpToDictOrder(v.items[i].val, w.items[j].val)
    ELSE IF v.k \in {"list", "tuple"}
    THEN \A i \in 1..Len(v.items) : SameUpToDictOrder(v.items[i].val, w.items[i].val)
    ELSE v = w

\* two calls of one function whose arguments are pairwise SameUpToDictOrder
SameCallUpToDictOrder(c, d) ==
    /\ c.func = d.func /\ c.exp = d.exp
    /\ Len(c.args) = Len(d.args) /\ Len(c.kwargs) = Len(d.kwargs)
    /\ \A i \in 1..Len(c.args) : SameUpToDictOrder(c.args[i], d.args[i])
    /\ \A i \in 1..Len(c.kwargs) :
          /\ c.kwargs[i].key = d.kwargs[i].key
          /\ SameUpToDictOrder(c.kwargs[i].val, d.kwargs[i].val)

\* C1: two calls that pass the same dict (positional or keyword) in two
\* insertion orders, at the top level or in any dict nested in it, return
\* the identical key and record the identical original_params.
C1_DictOrderIndependence ==
    (BothCalled /\ SameCallUpToDictOrder(prev, last)) => SameResult

DictNestedReversed ==
    PyDict(<<Entry(S(<<"l">>), PyList(<<PyDict(<<Entry(S(<<"q">>), PyNone), Entry(S(<<"p">>), PyInt(1))>>)>>)),
             Entry(S(<<"o">>), PyDict(<<Entry(S(<<"y">>), PyInt(20)), Entry(S(<<"x">>), PyInt(10))>>))>>)

C1_Witness ==
    /\ BothCalled /\ SameResult
    /\ prev.kwargs = <<Entry(S(<<"d","a","t","a">>), DictNested)>>
    /\ last.kwargs = <<Entry(S(<<"d","a","t","a">>), DictNestedReversed)>>

\* the runtime type of x is in the exclusion set
ExcludedType(x) == x.k \in {"datetime", "date", "time", "UUID"}

RECURSIVE DictsDifferOnlyInExcluded(_, _)
\* two dicts (their entries) with the same keys in the same order that differ
\* only in values of excluded types: in the dict itself, in dict-valued
\* entries, and as elements or in dict elements of list-valued entries
DictsDifferOnlyInExcluded(d, e) ==
    /\ Len(d) = Len(e)
    /\ \A i \in 1..Len(d) :
          /\ d[i].key = e[i].key
          /\ LET x == d[i].val
                 y == e[i].val
             IN \/ x = y
                \/ ExcludedType(x) /\ ExcludedType(y)
                \/ x.k = "dict" /\ y.k = "dict" /\ DictsDifferOnlyInExcluded(x.items, y.items)
                \/ /\ x.k = "list" /\ y.k = "list" /\ Len(x.items) = Len(y.items)
                   /\ \A j \in 1..Len(x.items) :
                         LET a == x.items[j].val
                             b == y.items[j].val
                         IN \/ a = b
                            \/ ExcludedType(a) /\ ExcludedType(b)
                            \/ /\ a.k = "dict" /\ b.k = "dict"
                               /\ DictsDifferOnlyInExcluded(a.items, b.items)

\* one dict argument each, positional or under the same keyword
DictArgument(c) ==
    IF Len(c.args) = 1 /\ c.kwargs = <<>> /\ c.args[1].k = "dict" THEN <<c.args[1]>>
    ELSE IF c.args = <<>> /\ Len(c.kwargs) = 1 /\ c.kwargs[1].val.k = "dict"
    THEN <<c.kwargs[1].val>>
    ELSE <<>>

DictCallsDifferOnlyInExcluded(c, d) ==
    /\ c.func = d.func /\ c.exp = d.exp
    /\ Len(c.args) = Len(d.args) /\ Len(c.kwargs) = Len(d.kwargs)
    /\ \A i \in 1..Len(c.kwargs) : c.kwargs[i].key = d.kwargs[i].key
    /\ DictArgument(c) # <<>> /\ DictArgument(d) # <<>>
    /\ DictsDifferOnlyInExcluded(DictArgument(c)[1].items, DictArgument(d)[1].items)

\* thread t returned or raised what the call alone does
ReturnsAs(t, alone) ==
    /\ threads[t].ok = alone.ok
    /\ threads[t].e = alone.e
    /\ alone.ok => threads[t].key = alone.v

\* C2: when several threads run generate_key on one KeyGenerator, every
\* call that has returned or raised did so exactly as the same call does
\* when it runs alone: the same key, or the same error.
C2_ConcurrentCallsReturnOwnKey ==
    \A t \in Threads :
        threads[t].pc = "done"
        => ReturnsAs(t, generate_key(prefix, threads[t].call.func, threads[t].call.args,
                                     threads[t].call.kwargs, threads[t].call.exp))

\* C3: two dict arguments that differ only in values of excluded types (in
\* the dict, in nested dicts at any depth, as elements of list-valued entries
\* or inside dict elements of such lists) give the identical key.
C3_ExcludedValuesInDictIgnored ==
    (BothCalled /\ DictCallsDifferOnlyInExcluded(prev, last)) => SameResult

C3_Witness ==
    /\ BothCalled /\ SameResult
    /\ prev.args = <<PyDict(<<Entry(S(<<"e">>), PyList(<<DT1, PyDict(<<Entry(S(<<"n">>), PyInt(1)), Entry(S(<<"t">>), DT1)>>), PyInt(2)>>))>>)>>
    /\ last.args = <<PyDict(<<Entry(S(<<"e">>), PyList(<<UUID1, PyDict(<<Entry(S(<<"n">>), PyInt(1)), Entry(S(<<"t">>), UUID1)>>), PyInt(2)>>))>>)>>

\* x and y differ only in a value of an excluded type that is the argument
\* itself, an element of the list or tuple argument, or held in a dict that
\* is an element of the list argument
ArgsDifferOnlyInExcluded(x, y) ==
    \/ x = y
    \/ ExcludedType(x) /\ ExcludedType(y)
    \/ /\ x.k = y.k /\ x.k \in {"list", "tuple"} /\ Len(x.items) = Len(y.items)
       /\ \A j \in 1..Len(x.items) :
             LET a == x.items[j].val
                 b == y.items[j].val
             IN \/ a = b
                \/ ExcludedType(a) /\ ExcludedType(b)
                \/ /\ a.k = "dict" /\ b.k = "dict"
                   /\ DictsDifferOnlyInExcluded(a.items, b.items)

\* C4: values of excluded types do not change the key wherever they occur:
\* passed directly as a positional or keyword argument, as an element of a
\* top-level list or tuple, or in a dict that is an element of a top-level list.
C4_ExcludedValuesIgnoredEverywhere ==
    ( /\ BothCalled /\ prev.ok /\ last.ok
      /\ prev.func = last.func /\ prev.exp = last.exp
      /\ Len(prev.args) = Len(last.args) /\ Len(prev.kwargs) = Len(last.kwargs)
      /\ \A i \in 1..Len(prev.args) : ArgsDifferOnlyInExcluded(prev.args[i], last.args[i])
      /\ \A i \in 1..Len(prev.kwargs) :
            /\ prev.kwargs[i].key = last.kwargs[i].key
            /\ ArgsDifferOnlyInExcluded(prev.kwargs[i].val, last.kwargs[i].val) )
    => prev.key = last.key

\* C5: a self-referential dict argument makes generate_key raise
\* UncachableArgumentError, and no other error.
C5_SelfReferenceRaisesUncachable ==
    (last.called /\ last.args = <<CircularDict>>)
    => (~last.ok /\ last.e = "UncachableArgumentError")

\* the keyword arguments of c and d are equal as mappings
SameMapping(kw1, kw2) == {kw1[i] : i \in 1..Len(kw1)} = {kw2[i] : i \in 1..Len(kw2)}

\* C6: two calls of one function whose keyword arguments are equal as
\* mappings, supplied in a different order, return the identical key.
C6_KwargOrderIndependence ==
    ( /\ BothCalled /\ prev.ok /\ last.ok
      /\ prev.func = last.func /\ prev.exp = last.exp /\ prev.args = last.args
      /\ SameMapping(prev.kwargs, last.kwargs) )
    => prev.key = last.key

\* the first parameter of the function is named self
IsMethod(func) == func.params # <<>> /\ func.params[1] = S(<<"s","e","l","f">>)

StageEntries(stage) == {en \in cache : en.function_name = FunctionName(StageFuncs[stage])}

\* C8: a cached method called on instances that differ in their state
\* returns to each instance the result computed for that instance, and a
\* stage that has been called on every instance holds an entry for each.
C8_InstancesCachedSeparately ==
    /\ served.called => served.value = StageResult(served.inst, served.stage)
    /\ \A stage \in Stages :
          (\A inst \in Pipelines : <<inst, stage>> \in invoked)
          => Cardinality(StageEntries(stage)) >= Cardinality(Pipelines)

\* C9: every key generate_key returns is at most 250 characters long and
\* holds no newline, carriage return or NUL.
C9_KeyWithinBackendLimits ==
    (last.called /\ last.ok)
    => /\ StrLen(last.key) <= 250
       /\ ~Contains(last.key, LF) /\ ~Contains(last.key, CR) /\ ~Contains(last.key, NUL)

\* the full serialized form of an argument that serializes without error
SerializedForm(arg) ==
    IF arg.k = "dict"
    THEN JsonEncode(PyDict(_filter_dict_for_cache(arg.items, arg, 1).v), arg, FALSE).v
    ELSE JsonEncode(arg, arg, FALSE).v

\* the token the claim gives a serialized form
TokenOf(form) ==
    IF StrLen(form) > ConfigMaxValueLength THEN Sha256Hex(form, 16) ELSE form

\* C10: a serialized argument or keyword value longer than the maximum value
\* length is replaced in original_params by 16 hex digits of the hash of its
\* full serialized form, and a form of at most that length is kept.
C10_OversizedValueHashedTo16Hex ==
    (last.called /\ last.ok /\ Len(last.args) + Len(last.kwargs) = 1 /\ ~IsMethod(last.func))
    => IF last.kwargs = <<>>
       THEN last.params = PyStr(TokenOf(SerializedForm(last.args[1])))
       ELSE last.params = PyStr(last.kwargs[1].key \o S(<<"=">>)
                                \o TokenOf(SerializedForm(last.kwargs[1].val)))

\* s holds hex digits of a SHA-256 digest
HoldsDigest(s) == \E i \in 1..Len(s) : s[i].ch = "#"

\* C11: after generate_key has returned, original_params holds the parameters
\* at full length: no part of it is a hash that replaces an argument.
C11_OriginalParamsNeverHashed ==
    (last.called /\ last.ok) => ~HoldsDigest(original_params.s)

\* C12: two calls of one function with the same arguments and two distinct
\* expiration dates return different keys.
C12_DistinctExpirationsDistinctKeys ==
    ( /\ BothCalled /\ prev.ok /\ last.ok
      /\ prev.func = last.func /\ prev.args = last.args /\ prev.kwargs = last.kwargs
      /\ prev.exp.k = "datetime" /\ last.exp.k = "datetime" /\ prev.exp # last.exp )
    => prev.key # last.key

\* C13: whatever calls came before on the same KeyGenerator, successful or
\* failed, a call returns the key (or raises the error) that it gives on a
\* fresh KeyGenerator with the same prefix.
C13_KeyIndependentOfEarlierCalls ==
    last.called
    => /\ last.ok = generate_key(prefix, last.func, last.args, last.kwargs, last.exp).ok
       /\ last.e = generate_key(prefix, last.func, last.args, last.kwargs, last.exp).e
       /\ (IF last.ok THEN last.key ELSE last.msg)
          = generate_key(prefix, last.func, last.args, last.kwargs, last.exp).v

\* a call that returned a key right after a call of another function with
\* other arguments that failed
C13_Witness ==
    /\ BothCalled /\ ~prev.ok /\ prev.args = <<CircularDict>>
    /\ last.ok /\ last.func = Func_g /\ last.args = <<Pipeline2, PyInt(6)>>
    /\ last.key = generate_key(prefix, Func_g, <<Pipeline2, PyInt(6)>>, <<>>, PyNone).v

\* the arguments that are not None
NotNoneArgs(args) == SelectSeq(args, LAMBDA a : a.k # "NoneType")
NotNoneKwargs(kwargs) == SelectSeq(kwargs, LAMBDA en : en.val.k # "NoneType")

\* C14: a call that passes None as a positional or keyword argument records
\* the same original_params and returns the same key as the same call with
\* the None arguments left out.
C14_NoneArgumentContributesNoToken ==
    ( /\ BothCalled /\ prev.func = last.func /\ prev.exp = last.exp
      /\ (prev.args # last.args \/ prev.kwargs # last.kwargs)
      /\ last.args = NotNoneArgs(prev.args)
      /\ last.kwargs = NotNoneKwargs(prev.kwargs) )
    => SameResult

\* the dict e is the dict d with one more entry, e[i], under a key not in d
ExtendedAt(d, e, i) ==
    /\ Len(e) = Len(d) + 1
    /\ i \in 1..Len(e)
    /\ d = [j \in 1..Len(d) |-> IF j < i THEN e[j] ELSE e[j + 1]]
    /\ \A j \in 1..Len(d) : d[j].key # e[i].key

\* both calls pass one positional dict to the same function
OneDictEach == 
    /\ BothCalled /\ prev.ok /\ last.ok /\ prev.func = last.func /\ prev.exp = last.exp
    /\ prev.kwargs = <<>> /\ last.kwargs = <<>>
    /\ Len(prev.args) = 1 /\ Len(last.args) = 1
    /\ prev.args[1].k = "dict" /\ last.args[1].k = "dict"

\* C15: the key for a dict extended with an entry k: None differs from the
\* key for the dict itself, and the key for the dict extended with an entry
\* of an excluded type equals it.
C15_NoneEntryKeptExcludedDropped ==
    OneDictEach
    => \A i \in 1..Len(last.args[1].items) :
          ExtendedAt(prev.args[1].items, last.args[1].items, i)
          => /\ last.args[1].items[i].val.k = "NoneType" => prev.key # last.key
             /\ ExcludedType(last.args[1].items[i].val) => prev.key = last.key

C15_Witness ==
    /\ BothCalled /\ prev.ok /\ last.ok /\ prev.key # last.key
    /\ prev.args = <<PyDict(<<Entry(S(<<"i","d">>), PyInt(1))>>)>>
    /\ last.args = <<PyDict(<<Entry(S(<<"o","p","t","i","o","n","a","l">>), PyNone), Entry(S(<<"i","d">>), PyInt(1))>>)>>
    /\ last.params = PyStr(S(<<"{", "\"">>) \o S(<<"i","d">>) \o S(<<"\"", ":", "1", ",", "\"">>)
                           \o S(<<"o","p","t","i","o","n","a","l">>) \o S(<<"\"", ":">>) \o S(<<"n","u","l","l">>) \o S(<<"}">>))

RECURSIVE DiffersInStableField(_, _)
\* two dicts (their entries) with the same keys in the same order, of which
\* at least one entry, in the dicts or in a dict nested in them, has two
\* different values of type int, str, bool or None
DiffersInStableField(d, e) ==
    /\ Len(d) = Len(e)
    /\ \A i \in 1..Len(d) : d[i].key = e[i].key
    /\ \E i \in 1..Len(d) :
          \/ /\ d[i].val.k \in {"int", "str", "bool", "NoneType"}
             /\ e[i].val.k \in {"int", "str", "bool", "NoneType"}
             /\ d[i].val # e[i].val
          \/ /\ d[i].val.k = "dict" /\ e[i].val.k = "dict"
             /\ DiffersInStableField(d[i].val.items, e[i].val.items)

\* C16: two calls whose dict arguments differ in the value of an entry of a
\* non-excluded type return different keys, also when the dicts hold entries
\* of excluded types, equal or not.
C16_StableFieldChangesKey ==
    (OneDictEach /\ DiffersInStableField(prev.args[1].items, last.args[1].items))
    => prev.key # last.key

C16_Witness ==
    /\ BothCalled /\ prev.ok /\ last.ok /\ prev.key # last.key
    /\ prev.args = <<PyDict(<<Entry(S(<<"u","s","e","r","_","i","d">>), PyInt(1)), Entry(S(<<"t">>), DT1)>>)>>
    /\ last.args = <<PyDict(<<Entry(S(<<"u","s","e","r","_","i","d">>), PyInt(2)), Entry(S(<<"t">>), DT2)>>)>>

\* x is an object that exposes pk
Persisted(x) == HasAttr(x, S(<<"p","k">>))

RECURSIVE SameEntities(_, _)
\* x and y are equal but for the attributes other than pk of the persisted
\* entities in them
SameEntities(x, y) ==
    IF Persisted(x) /\ Persisted(y)
    THEN x.c = y.c /\ GetAttr(x, S(<<"p","k">>)) = GetAttr(y, S(<<"p","k">>))
    ELSE IF x.k = y.k /\ x.k \in {"list", "tuple", "dict"} /\ Len(x.items) = Len(y.items)
    THEN \A i \in 1..Len(x.items) :
            /\ x.items[i].key = y.items[i].key
            /\ SameEntities(x.items[i].val, y.items[i].val)
    ELSE x = y

RECURSIVE DiffersInPk(_, _)
\* x and y are, or hold at the same place, two entities of one type whose
\* pk differ, and are otherwise equal
DiffersInPk(x, y) ==
    IF Persisted(x) /\ Persisted(y)
    THEN x.c = y.c /\ GetAttr(x, S(<<"p","k">>)) # GetAttr(y, S(<<"p","k">>))
    ELSE /\ x.k = y.k /\ x.k \in {"list", "tuple", "dict"} /\ Len(x.items) = Len(y.items)
         /\ \A i \in 1..Len(x.items) :
               /\ x.items[i].key = y.items[i].key
               /\ \/ x.items[i].val = y.items[i].val
                  \/ DiffersInPk(x.items[i].val, y.items[i].val)
         /\ \E i \in 1..Len(x.items) : DiffersInPk(x.items[i].val, y.items[i].val)

\* the calls pass the same number of arguments under the same keywords
SameSignature ==
    /\ BothCalled /\ prev.ok /\ last.ok /\ prev.func = last.func /\ prev.exp = last.exp
    /\ Len(prev.args) = Len(last.args) /\ Len(prev.kwargs) = Len(last.kwargs)
    /\ \A i \in 1..Len(prev.kwargs) : prev.kwargs[i].key = last.kwargs[i].key

\* a persisted entity is among the arguments of the latest call or in them
HoldsEntity(c) ==
    \/ \E i \in 1..Len(c.args) :
          \/ Persisted(c.args[i])
          \/ \E j \in 1..Len(c.args[i].items) : Persisted(c.args[i].items[j].val)
    \/ \E i \in 1..Len(c.kwargs) : Persisted(c.kwargs[i].val)

\* C17: an object that exposes pk counts as TypeName:pk, as an argument and
\* inside a collection: two instances of one type with the same pk give the
\* identical key whatever their other attributes, two with different pk
\* give different keys.
C17_PersistedEntityByTypeAndPk ==
    (SameSignature /\ HoldsEntity(last))
    => /\ ( /\ \A i \in 1..Len(prev.args) : SameEntities(prev.args[i], last.args[i])
            /\ \A i \in 1..Len(prev.kwargs) :
                  SameEntities(prev.kwargs[i].val, last.kwargs[i].val) )
          => SameResult
       /\ ( \/ Len(prev.args) = 1 /\ DiffersInPk(prev.args[1], last.args[1])
            \/ Len(prev.kwargs) = 1 /\ DiffersInPk(prev.kwargs[1].val, last.kwargs[1].val) )
          => prev.key # last.key

\* the elements of a set value
Elements(x) == {x.items[i].val : i \in 1..Len(x.items)}

RECURSIVE SameUpToSetOrder(_, _)
\* x and y are equal but for the iteration order of the sets in them
SameUpToSetOrder(x, y) ==
    IF x.k = "set" /\ y.k = "set"
    THEN Len(x.items) = Len(y.items) /\ Elements(x) = Elements(y)
    ELSE IF x.k = y.k /\ x.k \in {"list", "tuple", "dict"} /\ Len(x.items) = Len(y.items)
    THEN \A i \in 1..Len(x.items) :
            /\ x.items[i].key = y.items[i].key
            /\ SameUpToSetOrder(x.items[i].val, y.items[i].val)
    ELSE x = y

\* both calls pass one argument, positional or under the same keyword
OneArgumentEach ==
    /\ SameSignature
    /\ Len(prev.args) + Len(prev.kwargs) = 1

\* the one argument of a call
Argument(c) == IF c.args # <<>> THEN c.args[1] ELSE c.kwargs[1].val

\* C18: a set passed as an argument gives the identical key and the
\* identical original_params for every iteration order of its elements.
C18_SetOrderIndependence ==
    ( /\ OneArgumentEach
      /\ Argument(prev).k = "set"
      /\ SameUpToSetOrder(Argument(prev), Argument(last)) )
    => SameResult

C18_Witness ==
    /\ BothCalled /\ SameResult
    /\ prev.args = <<PySet(<<PyStr(S(<<"b">>)), PyStr(S(<<"a">>)), PyInt(10)>>)>>
    /\ last.args = <<PySet(<<PyInt(10), PyStr(S(<<"a">>)), PyStr(S(<<"b">>))>>)>>
    /\ last.params = PyStr(S(<<"[", "1", "0", ",", "\"", "a", "\"", ",", "\"", "b", "\"", "]">>))

\* C19: two dict arguments equal but for the iteration order of the elements
\* of a set among their values return the identical key.
C19_SetValuedEntryOrderIndependence ==
    ( /\ OneArgumentEach
      /\ Argument(prev).k = "dict"
      /\ SameUpToSetOrder(Argument(prev), Argument(last)) )
    => prev.key = last.key

\* x and y hold the same elements, not in the same order
Reordered(x, y) ==
    /\ Len(x.items) = Len(y.items)
    /\ x.items # y.items
    /\ \E p \in Bijections(Len(x.items)) :
          \A i \in 1..Len(x.items) : y.items[i] = x.items[p[i]]

\* C20: two list arguments, or two tuple arguments, that hold the same
\* elements in a different order record different original_params and
\* return different keys.
C20_SequenceOrderMatters ==
    ( /\ OneArgumentEach
      /\ Argument(prev).k = Argument(last).k
      /\ Argument(prev).k \in {"list", "tuple"}
      /\ Reordered(Argument(prev), Argument(last)) )
    => (prev.params # last.params /\ prev.key # last.key)

C20_Witness ==
    /\ BothCalled /\ prev.ok /\ last.ok /\ prev.key # last.key
    /\ prev.args = <<PyList(<<PyInt(1), PyInt(2), PyInt(3)>>)>>
    /\ last.args = <<PyList(<<PyInt(3), PyInt(2), PyInt(1)>>)>>
    /\ last.params = PyStr(S(<<"[", "3", ",", "2", ",", "1", "]">>))


\* sub occurs in s
Occurs(sub, s) ==
    \E k \in 0..(Len(s) - Len(sub)) : SubSeq(s, k + 1, k + Len(sub)) = sub

\* the "_YYYYMMDD_HHMMSS" the key ends with when a date was given
ExpiresSuffix(exp) ==
    IF exp.k = "datetime" THEN S(<<"_">>) \o StrfTime(exp.t) ELSE <<>>

FirstFailing(args, func, i) ==
    /\ i \in 1..Len(args)
    /\ ~ArgTokens(args[i], func).ok
    /\ \A j \in 1..(i - 1) : ArgTokens(args[j], func).ok

\* the part of C22 the code keeps: type name and function always, the name
\* of a keyword argument
C22_ErrorNamesTypeAndFunction ==
    (last.called /\ ~last.ok /\ last.e = "UncachableArgumentError")
    => /\ Occurs(S(<<" ","o","f"," ","t","y","p","e"," ","'","d","i","c","t","'"," ","f","o","r"," ","f","u","n","c","t","i","o","n"," ","'">>) \o last.func.qualname \o S(<<"'">>), last.msg)
       /\ Occurs(S(<<"C","i","r","c","u","l","a","r"," ","r","e","f","e","r","e","n","c","e"," ","d","e","t","e","c","t","e","d">>), last.msg)

\* C22: the UncachableArgumentError of a failed generate_key names the
\* offending argument (its position when positional, its name when keyword),
\* the name of its runtime type and the function.
C22_ErrorIdentifiesArgument ==
    (last.called /\ ~last.ok /\ last.e = "UncachableArgumentError")
    => /\ C22_ErrorNamesTypeAndFunction
       /\ \A i \in 1..Len(FilteredArgs(last.func, last.args)) :
            FirstFailing(FilteredArgs(last.func, last.args), last.func, i)
            => /\ Occurs(TypeName(FilteredArgs(last.func, last.args)[i]), last.msg)
               /\ \E n \in {i - 1, i} : Occurs(IntStr(n), last.msg)
       /\ ( ArgsTokens(FilteredArgs(last.func, last.args), last.func).ok
            => \E i \in 1..Len(last.kwargs) :
                 /\ ~KwargTokens(last.kwargs[i].key, last.kwargs[i].val, last.func).ok
                 /\ Occurs(S(<<"'">>) \o last.kwargs[i].key \o S(<<"'">>), last.msg)
                 /\ Occurs(TypeName(last.kwargs[i].val), last.msg) )

\* C30: after a failed generate_key the fields function_name and
\* original_params are both unset, or both describe one successful call.
C30_FailedCallLeavesFieldsConsistent ==
    (last.called /\ ~last.ok)
    => \/ function_name = PyNone /\ original_params = PyNone
       \/ /\ function_name # PyNone /\ original_params # PyNone
          /\ \E c \in Calls :
               /\ _simple_params(c.func, c.args, c.kwargs).ok
               /\ function_name.s = FunctionName(c.func)
               /\ original_params.s = _simple_params(c.func, c.args, c.kwargs).v

\* C23: validate_cache_key raises CacheKeyValidationError exactly for a key
\* of more than 250 characters or one that holds a newline, a carriage
\* return or a NUL; every other key, one of exactly 250 characters included,
\* is accepted; the call changes no field of the generator.
C23_ValidateRejectsLongOrControl ==
    /\ [](checked.called
          => /\ checked.ok <=> ~( \/ StrLen(checked.key) > 250
                                  \/ \E i \in 1..Len(checked.key) :
                                        checked.key[i] \in {LF, CR, NUL} )
             /\ ~checked.ok => checked.e = "CacheKeyValidationError")
    /\ [][checked' # checked
          => UNCHANGED <<prefix, function_name, original_params, last, prev>>]_vars

\* a key of exactly 250 characters accepted after a call of generate_key
C23_Witness ==
    /\ checked.called /\ checked.ok /\ StrLen(checked.key) = 250
    /\ last.called /\ function_name # PyNone

\* the call passes one object that declares _cache_exclude_, and nothing else
PassesExcluding(c) ==
    /\ c.ok /\ Len(c.args) = 1 /\ c.kwargs = <<>>
    /\ HasAttr(c.args[1], S(<<"_","c","a","c","h","e","_","e","x","c","l","u","d","e","_">>))

\* the attribute named name is listed in the _cache_exclude_ of x
Declared(x, name) ==
    \E j \in 1..Len(GetAttr(x, S(<<"_","c","a","c","h","e","_","e","x","c","l","u","d","e","_">>)).items) :
        GetAttr(x, S(<<"_","c","a","c","h","e","_","e","x","c","l","u","d","e","_">>)).items[j].val = PyStr(name)

\* C24: two objects that declare _cache_exclude_ and differ only in fields
\* named there give the identical key; two that differ in a field not named
\* there give different keys.
C24_CacheExcludeFieldsLeftOut ==
    ( /\ BothCalled /\ PassesExcluding(prev) /\ PassesExcluding(last)
      /\ prev.func = last.func /\ prev.exp = last.exp
      /\ prev.args[1].c = last.args[1].c
      /\ Len(prev.args[1].items) = Len(last.args[1].items)
      /\ \A j \in 1..Len(prev.args[1].items) :
            prev.args[1].items[j].key = last.args[1].items[j].key )
    => IF \A j \in 1..Len(prev.args[1].items) :
             \/ prev.args[1].items[j].val = last.args[1].items[j].val
             \/ Declared(prev.args[1], prev.args[1].items[j].key)
       THEN prev.key = last.key
       ELSE prev.key # last.key

\* the call passes one dataclass instance, and nothing else
PassesDataclass(c) ==
    c.ok /\ Len(c.args) = 1 /\ c.kwargs = <<>> /\ c.args[1].k = "dataclass"

\* the part of C25 about hash=False fields: instances that differ only in
\* them give the identical key and the identical original_params
C25_NonHashingFieldsIgnored ==
    ( /\ BothCalled /\ PassesDataclass(prev) /\ PassesDataclass(last)
      /\ prev.func = last.func /\ prev.exp = last.exp
      /\ prev.args[1].c = last.args[1].c
      /\ \A j \in 1..Len(prev.args[1].items) :
            \/ prev.args[1].items[j] = last.args[1].items[j]
            \/ prev.args[1].items[j].val.i = 0 )
    => SameResult

\* C25: a dataclass argument counts as the mapping of its fields not declared
\* with hash=False: instances that differ only in hash=False fields give the
\* identical key, instances that differ in another field give different keys.
C25_DataclassByHashingFields ==
    /\ C25_NonHashingFieldsIgnored
    /\ ( /\ BothCalled /\ PassesDataclass(prev) /\ PassesDataclass(last)
         /\ prev.func = last.func /\ prev.exp = last.exp
         /\ prev.args[1].c = last.args[1].c
         /\ \E j \in 1..Len(prev.args[1].items) :
               /\ prev.args[1].items[j] # last.args[1].items[j]
               /\ prev.args[1].items[j].val.i # 0 )
       => prev.key # last.key

\* C26: a generator constructed with auto_exclude=False exists and keeps the
\* values of the excluded types: two dicts that differ only in a datetime
\* value give different keys.
C26_AutoExcludeSwitchedOff ==
    (\E j \in 1..Len(constructed.kwargs) :
        constructed.kwargs[j] = Entry(S(<<"a","u","t","o","_","e","x","c","l","u","d","e">>), PyBool(FALSE)))
    => /\ constructed.ok
       /\ (BothCalled /\ DictCallsDifferOnlyInExcluded(prev, last) /\ prev.args # last.args)
          => prev.key # last.key

\* the call passes one str whose JSON form is within the length limit
PassesShortString(c) ==
    /\ c.ok /\ Len(c.args) = 1 /\ c.kwargs = <<>> /\ c.args[1].k = "str"
    /\ StrLen(JsonString(c.args[1].s)) <= ConfigMaxValueLength

\* C27: two calls of one function with one str argument each, the strings
\* different and neither long enough to be hashed, record different
\* original_params.
C27_DistinctShortStringsDistinctParams ==
    ( /\ BothCalled /\ PassesShortString(prev) /\ PassesShortString(last)
      /\ prev.func = last.func /\ prev.args # last.args )
    => prev.params # last.params

\* the call passes one request-like object, and nothing else
PassesRequest(c) ==
    /\ c.ok /\ Len(c.args) = 1 /\ c.kwargs = <<>>
    /\ HasAttr(c.args[1], S(<<"G","E","T">>))

\* the query parameters of the request the call passes
Query(c) == GetAttr(c.args[1], S(<<"G","E","T">>)).items

\* the part of C28 about the tokens: key=value per query parameter, in
\* iteration order, the value being the processed JSON text of the string
C28_OneTokenPerQueryParameter ==
    (last.called /\ PassesRequest(last))
    => last.params.s
       = Join(S(<<"&">>), [j \in 1..Len(Query(last)) |->
                      Query(last)[j].key \o S(<<"=">>)
                      \o _process_value(JsonString(Query(last)[j].val.s))])

\* C28: a request argument gives one key=value token per query parameter, in
\* iteration order, and nothing else: requests with equal query parameters
\* give the identical key, requests that differ in the value of a query
\* parameter give different keys.
C28_RequestByQueryParameters ==
    /\ C28_OneTokenPerQueryParameter
    /\ ( /\ BothCalled /\ PassesRequest(prev) /\ PassesRequest(last)
         /\ prev.func = last.func /\ prev.exp = last.exp
         /\ Len(Query(prev)) = Len(Query(last))
         /\ \A j \in 1..Len(Query(prev)) : Query(prev)[j].key = Query(last)[j].key )
       => IF Query(prev) = Query(last) THEN prev.key = last.key ELSE prev.key # last.key

\* the keyword arguments but those named request, args or kwargs
NotReserved(kwargs) ==
    SelectSeq(kwargs, LAMBDA en : en.key \notin {S(<<"r","e","q","u","e","s","t">>), S(<<"a","r","g","s">>), S(<<"k","w","a","r","g","s">>)})

\* C29: two calls of one function that differ only in keyword arguments named
\* request, args or kwargs (present or not, whatever their values) return
\* the same key and record the same original_params.
C29_ReservedKeywordsIgnored ==
    ( /\ BothCalled /\ prev.ok /\ last.ok
      /\ prev.func = last.func /\ prev.args = last.args /\ prev.exp = last.exp
      /\ NotReserved(prev.kwargs) = NotReserved(last.kwargs) )
    => prev.key = last.key /\ prev.params = last.params

\* a call without keywords, then the same call with request= a request that
\* has query parameters
C29_Witness ==
    /\ BothCalled /\ SameResult /\ prev.kwargs = <<>>
    /\ Len(last.kwargs) = 1 /\ last.kwargs[1].key = S(<<"r","e","q","u","e","s","t">>)
    /\ HasAttr(last.kwargs[1].val, S(<<"G","E","T">>))
    /\ GetAttr(last.kwargs[1].val, S(<<"G","E","T">>)).items # <<>>

=========================================================================
